---- MODULE Spec2Model ----
(***************************************************************************)
(* Model of the matching core of krdn/ais-matching:                        *)
(*   - generateAutoAssignment / calculateLoadStats (greedy assignment),    *)
(*   - analyzeTeamComposition and its helpers (composition analyzer),      *)
(*   - calculateFairnessMetrics and its helpers (fairness auditor).        *)
(* Each component is a pure computation; it gets a specification of its    *)
(* own whose Init draws the inputs and whose actions run the code.         *)
(***************************************************************************)
EXTENDS Integers, Sequences, FiniteSets, TLC

VARIABLES
    \* ---- generateAutoAssignment ----
    students,       \* input: sequence of student ids, in input order
    teachers,       \* input: sequence of currentLoad, teacher id = position
    options,        \* input: [maxStudentsPerTeacher, minCompatibilityThreshold]
    scoreRange,     \* input: the values scoreFn(...).overall may return
    pc,             \* "start" | "loop" | "done"
    idx,            \* position of the next student of the for-of loop
    maxLoad,        \* the effective cap (line 289)
    teacherLoads,   \* the running load table (Map teacher id -> load)
    assignments,    \* the result list under construction
    lastScores,     \* scoreFn's results for the last student: <<>> or <<overall>> per teacher
    \* ---- calculateShannonDiversity ----
    counts,         \* input: the category counts
    total,          \* input: the total the counts are divided by
    shannon,        \* <<>> before the call, <<result>> after it
    \* ---- analyzeTeamComposition ----
    roster,         \* input: the TeacherTeamData list
    analysis,       \* <<>> before the call, <<TeamCompositionAnalysis>> after it
    \* ---- fairness metrics ----
    fairAssignments, \* input: the Assignment list (studentId, teacherId, score)
    balance,        \* <<>> before the call, <<distributionBalance>> after it
    studentGroupMap, \* input: <<>> (undefined) or <<Map studentId -> group label>>
    abroca,         \* <<>> before the call, <<calculateABROCA's result>> after it
    metrics,        \* <<>> before the call, <<FairnessMetrics>> after it
    \* ---- getTeamRecommendations ----
    recComposition,    \* input: the TeamComposition fields the rules read
    recDiversityScore, \* input: the DiversityScore fields the rules read
    recResult,         \* <<>> before the call, <<Recommendation list>> after it
    \* ---- assignment proposals (repositories/assignment.ts) ----
    proposalExists, \* whether the AssignmentProposal row exists
    proposalStatus, \* its status column: "pending" | "approved" | "rejected"
    studentExists,  \* per assignment of the proposal: whether the Student row exists
    studentTeacher, \* per assignment of the proposal: the student's teacherId column
    calls           \* per call: its operation, position, snapshot and outcome

assignVars == <<students, teachers, options, scoreRange, pc, idx, maxLoad,
                teacherLoads, assignments, lastScores>>

shannonVars == <<counts, total, shannon>>

teamVars == <<roster, analysis>>

fairVars == <<fairAssignments, balance>>

metricsVars == <<studentGroupMap, abroca, metrics>>

recVars == <<recComposition, recDiversityScore, recResult>>

proposalVars == <<proposalExists, proposalStatus, studentExists, studentTeacher, calls>>

vars == <<assignVars, shannonVars, teamVars, fairVars, metricsVars, recVars, proposalVars>>

----------------------------------------------------------------------------
(* Bounds of the model *)

MaxStudents == 2
MaxTeachers == 2
MaxStartLoad == 2
MaxCap == 1
MaxScore == 1

\* currentLoad is a count of students; the cap option is a positive integer
Loads == 0..MaxStartLoad
Caps == 1..MaxCap
Scores == 0..MaxScore

\* An optional field of the options object: <<>> is undefined, <<v>> is v.
Optional(S) == {<<>>} \cup {<<v>> : v \in S}

Max2(a, b) == IF a >= b THEN a ELSE b
Min2(a, b) == IF a <= b THEN a ELSE b

\* Math.ceil(n / d) for n >= 0, d > 0
CeilDiv(n, d) == (n + d - 1) \div d

----------------------------------------------------------------------------
(* Numbers *)

\* A JavaScript number of the analysis code: NaN, or a finite value kept in
\* fixed point, in millionths (micro = value * 10^6, rounded down).
NaN == [nan |-> TRUE, micro |-> 0]
Num(micro) == [nan |-> FALSE, micro |-> micro]
Whole(n) == Num(n * 1000000)

\* num / den (num >= 0, den > 0) in millionths, in steps that stay within
\* 32 bits for den < 2 * 10^6
ToMicro(num, den) ==
    LET q == num \div den
        r == num % den
    IN q * 1000000 + ((r * 1000) \div den) * 1000 + (((r * 1000) % den) * 1000) \div den

\* Math.round of a non-negative fraction num / den, and of a number
RoundDiv(num, den) == (2 * num + den) \div (2 * den)
MathRound(x) == IF x.nan THEN NaN ELSE Whole((x.micro + 500000) \div 1000000)

\* Math.log(n) in millionths for n in 1..100
LnTable == <<
          0,  693147, 1098612, 1386294, 1609438, 1791759, 1945910, 2079442, 2197225, 2302585,
    2397895, 2484907, 2564949, 2639057, 2708050, 2772589, 2833213, 2890372, 2944439, 2995732,
    3044522, 3091042, 3135494, 3178054, 3218876, 3258097, 3295837, 3332205, 3367296, 3401197,
    3433987, 3465736, 3496508, 3526361, 3555348, 3583519, 3610918, 3637586, 3663562, 3688879,
    3713572, 3737670, 3761200, 3784190, 3806662, 3828641, 3850148, 3871201, 3891820, 3912023,
    3931826, 3951244, 3970292, 3988984, 4007333, 4025352, 4043051, 4060443, 4077537, 4094345,
    4110874, 4127134, 4143135, 4158883, 4174387, 4189655, 4204693, 4219508, 4234107, 4248495,
    4262680, 4276666, 4290459, 4304065, 4317488, 4330733, 4343805, 4356709, 4369448, 4382027,
    4394449, 4406719, 4418841, 4430817, 4442651, 4454347, 4465908, 4477337, 4488636, 4499810,
    4510860, 4521789, 4532599, 4543295, 4553877, 4564348, 4574711, 4584967, 4595120, 4605170 >>

\* Math.log(n) in millionths for n in 1..100 and for the multiples of 100
\* (ln(100 k) = ln(100) + ln(k)), which are the arguments the code reaches here
RECURSIVE LnMicro(_)
LnMicro(n) ==
    IF n <= 100 THEN LnTable[n] ELSE LnTable[100] + LnMicro(n \div 100)

----------------------------------------------------------------------------
(* calculateShannonDiversity (part_000 lines 253-267) *)

\* lines 256-261: sum of p * Math.log(p) over the nonzero counts, p = count / total,
\* in millionths
RECURSIVE EntropySum(_, _)
EntropySum(cs, tot) ==
    IF cs = <<>> THEN 0
    ELSE (IF cs[1] = 0 THEN 0
          ELSE LET d == LnMicro(cs[1]) - LnMicro(tot)
               IN IF d >= 0 THEN (cs[1] * d) \div tot ELSE -((cs[1] * (-d)) \div tot))
         + EntropySum(Tail(cs), tot)

\* lines 263-266: -sum / Math.log(counts.length), times 100, clamped to [0,100].
\* Math.log(0) is -Infinity and Math.log(1) is 0: x / -Infinity is 0, a nonzero
\* x / 0 is +-Infinity (clamped to 100 or 0), and 0 / 0 is NaN, which Math.max
\* and Math.min pass on.
calculateShannonDiversity(cs, tot) ==
    IF tot = 0 THEN Whole(0)
    ELSE LET neg == -EntropySum(cs, tot)
         IN IF Len(cs) = 0 THEN Whole(0)
            ELSE IF Len(cs) = 1
                 THEN (IF neg = 0 THEN NaN
                       ELSE IF neg > 0 THEN Whole(100)
                       ELSE Whole(0))
            ELSE LET maxDiversity == LnMicro(Len(cs))
                 IN IF neg <= 0 THEN Whole(0)
                    ELSE IF neg >= maxDiversity THEN Whole(100)
                    ELSE Num(ToMicro(neg * 100, maxDiversity))

MaxCategories == 3
MaxCount == 3
MaxTotal == 4

ShannonInit ==
    /\ counts \in UNION {[1..n -> 0..MaxCount] : n \in 0..MaxCategories}
    /\ total \in 0..MaxTotal
    /\ shannon = <<>>

CallShannon ==
    /\ shannon = <<>>
    /\ shannon' = <<calculateShannonDiversity(counts, total)>>
    /\ UNCHANGED <<counts, total>>

ShannonIdle == counts = <<>> /\ total = 0 /\ shannon = <<>>

----------------------------------------------------------------------------
(* generateAutoAssignment *)

\* Student id lists up to renaming of the ids: an id is either one seen
\* before or the next fresh one. Ids may repeat: the code does not look at them.
RECURSIVE MaxId(_)
MaxId(s) == IF s = <<>> THEN 0 ELSE Max2(s[Len(s)], MaxId(SubSeq(s, 1, Len(s) - 1)))

RECURSIVE IdLists(_)
IdLists(n) ==
    IF n = 0 THEN {<<>>}
    ELSE {Append(s, id) : s \in IdLists(n - 1), id \in 1..n}

StudentLists ==
    UNION {{s \in IdLists(n) : \A k \in 1..n : s[k] <= MaxId(SubSeq(s, 1, k - 1)) + 1}
           : n \in 0..MaxStudents}

TeacherLists == UNION {[1..n -> Loads] : n \in 0..MaxTeachers}

\* line 289: options.maxStudentsPerTeacher ?? Math.ceil(averageLoad * 1.2)
\* with averageLoad = totalStudents / totalTeachers; 1.2 = 6/5.
DefaultMaxLoad(totalStudents, totalTeachers) ==
    CeilDiv(6 * totalStudents, 5 * totalTeachers)

EffectiveMaxLoad(opts, totalStudents, totalTeachers) ==
    IF opts.maxStudentsPerTeacher # <<>>
    THEN opts.maxStudentsPerTeacher[1]
    ELSE DefaultMaxLoad(totalStudents, totalTeachers)

\* line 308: if (currentLoad >= maxLoad) continue
AtCapacityStrict(currentLoad, cap) == currentLoad > cap
AtCapacity(currentLoad, cap) == currentLoad >= cap

\* lines 318-323: options.minCompatibilityThreshold && score < threshold
\* (an undefined or zero threshold is falsy: nothing is filtered)
BelowThresholdInclusive(opts, score) ==
    /\ opts.minCompatibilityThreshold # <<>>
    /\ opts.minCompatibilityThreshold[1] # 0
    /\ score <= opts.minCompatibilityThreshold[1]
BelowThreshold(opts, score) ==
    /\ opts.minCompatibilityThreshold # <<>>
    /\ opts.minCompatibilityThreshold[1] # 0
    /\ score < opts.minCompatibilityThreshold[1]

\* line 326: if (!bestScore || score.overall > bestScore.overall)
\* best is <<>> (null) or <<teacherId, score>>
BetterOrEqual(score, best) == best = <<>> \/ score >= best[2]
Better(score, best) == best = <<>> \/ score > best[2]

\* lines 304-330: the scan of the teachers for one student
RECURSIVE ScanTeachers(_, _, _, _, _)
ScanTeachers(j, best, loads, cap, sc) ==
    IF j > Len(teachers) THEN best
    ELSE IF AtCapacity(loads[j], cap) THEN ScanTeachers(j + 1, best, loads, cap, sc)
    ELSE IF BelowThreshold(options, sc[j][1]) THEN ScanTeachers(j + 1, best, loads, cap, sc)
    ELSE IF Better(sc[j][1], best) THEN ScanTeachers(j + 1, <<j, sc[j][1]>>, loads, cap, sc)
    ELSE ScanTeachers(j + 1, best, loads, cap, sc)

\* lines 332-339: commit the pairing
CommitTwice(list, loads, studentId, best) ==
    IF best = <<>> THEN <<list, loads>>
    ELSE <<list \o << [studentId |-> studentId, teacherId |-> best[1], score |-> best[2]],
                       [studentId |-> studentId, teacherId |-> best[1], score |-> best[2]] >>,
           [loads EXCEPT ![best[1]] = @ + 1]>>
CommitNoLoadUpdate(list, loads, studentId, best) ==
    IF best = <<>> THEN <<list, loads>>
    ELSE <<Append(list, [studentId |-> studentId, teacherId |-> best[1], score |-> best[2]]),
           loads>>
CommitFront(list, loads, studentId, best) ==
    IF best = <<>> THEN <<list, loads>>
    ELSE << <<[studentId |-> studentId, teacherId |-> best[1], score |-> best[2]]>> \o list,
           [loads EXCEPT ![best[1]] = @ + 1]>>
Commit(list, loads, studentId, best) ==
    IF best = <<>> THEN <<list, loads>>
    ELSE <<Append(list, [studentId |-> studentId, teacherId |-> best[1], score |-> best[2]]),
           [loads EXCEPT ![best[1]] = @ + 1]>>

\* lines 284-297: the early return, the cap, the seeded load table
Start ==
    /\ pc = "start"
    /\ IF Len(teachers) = 0 \/ Len(students) = 0
       THEN /\ pc' = "done"
            /\ UNCHANGED <<maxLoad, teacherLoads>>
       ELSE /\ pc' = "loop"
            /\ maxLoad' = EffectiveMaxLoad(options, Len(students), Len(teachers))
            /\ teacherLoads' = [t \in 1..Len(teachers) |-> teachers[t]]
    /\ UNCHANGED <<students, teachers, options, scoreRange, idx, assignments, lastScores>>

\* lines 305-315: scoreFn is called for the teachers under the cap only;
\* sc[t] is <<>> (not called) or <<overall>>, any value scoreFn may return.
ScoreCalls(loads, cap) ==
    {sc \in [1..Len(teachers) -> Optional(scoreRange)] :
        \A t \in 1..Len(teachers) : (sc[t] = <<>>) <=> AtCapacity(loads[t], cap)}

\* lines 300-340: one iteration of the loop over the students
ProcessStudent ==
    /\ pc = "loop"
    /\ idx <= Len(students)
    /\ \E sc \in ScoreCalls(teacherLoads, maxLoad) :
          LET best == ScanTeachers(1, <<>>, teacherLoads, maxLoad, sc)
              done == Commit(assignments, teacherLoads, students[idx], best)
          IN /\ assignments' = done[1]
             /\ teacherLoads' = done[2]
             /\ lastScores' = sc
    /\ idx' = idx + 1
    /\ UNCHANGED <<students, teachers, options, scoreRange, pc, maxLoad>>

\* line 342: return assignments
Return ==
    /\ pc = "loop"
    /\ idx > Len(students)
    /\ pc' = "done"
    /\ UNCHANGED <<students, teachers, options, scoreRange, idx, maxLoad,
                   teacherLoads, assignments, lastScores>>

AssignStep == Start \/ ProcessStudent \/ Return

AssignInit ==
    /\ students \in StudentLists
    /\ teachers \in TeacherLists
    /\ options \in [maxStudentsPerTeacher : Optional(Caps),
                    minCompatibilityThreshold : Optional(Scores)]
    /\ scoreRange = Scores
    /\ pc = "start"
    /\ idx = 1
    /\ maxLoad = 0
    /\ teacherLoads = <<>>
    /\ assignments = <<>>
    /\ lastScores = <<>>

\* The scenario of a constant scoring function: T teachers at load 0, an
\* explicit cap c, T*c students, no threshold above the constant score.
MaxConstTeachers == 3
MaxConstCap == 5

AssignConstInit ==
    /\ \E T \in 1..MaxConstTeachers, c \in 1..MaxConstCap, s \in Scores \cup {80} :
          /\ students = [k \in 1..(T * c) |-> k]
          /\ teachers = [t \in 1..T |-> 0]
          /\ scoreRange = {s}
          /\ options \in {o \in [maxStudentsPerTeacher : {<<c>>},
                                 minCompatibilityThreshold : Optional(Scores)] :
                             o.minCompatibilityThreshold = <<>>
                             \/ o.minCompatibilityThreshold[1] <= s}
    /\ pc = "start"
    /\ idx = 1
    /\ maxLoad = 0
    /\ teacherLoads = <<>>
    /\ assignments = <<>>
    /\ lastScores = <<>>

\* calculateLoadStats (lines 348-363). mean and variance are kept as exact
\* fractions <<numerator, denominator>>; stdDev = sqrt(variance) is zero
\* exactly when the variance is.
RECURSIVE SumSeq(_)
SumSeq(s) == IF s = <<>> THEN 0 ELSE s[1] + SumSeq(Tail(s))

RECURSIVE MinSeq(_)
MinSeq(s) == IF Len(s) = 1 THEN s[1] ELSE Min2(s[1], MinSeq(Tail(s)))

RECURSIVE MaxSeq(_)
MaxSeq(s) == IF Len(s) = 1 THEN s[1] ELSE Max2(s[1], MaxSeq(Tail(s)))

calculateLoadStats(loads) ==
    IF Len(loads) = 0
    THEN [mean |-> <<0, 1>>, variance |-> <<0, 1>>, min |-> 0, max |-> 0, range |-> 0]
    ELSE LET n == Len(loads)
             sum == SumSeq(loads)
             sq == SumSeq([k \in 1..n |-> loads[k] * loads[k]])
         IN [mean |-> <<sum, n>>,
             variance |-> <<n * sq - sum * sum, n * n>>,
             min |-> MinSeq(loads),
             max |-> MaxSeq(loads),
             range |-> MaxSeq(loads) - MinSeq(loads)]

----------------------------------------------------------------------------
(* Composition analyzer (part_000) *)

\* A Record<string, number> in insertion order: a sequence of [name, value].
\* obj[key] = (obj[key] || 0) + n
HasKey(obj, key) == \E k \in 1..Len(obj) : obj[k].name = key
AddTo(obj, key, n) ==
    IF HasKey(obj, key)
    THEN [k \in 1..Len(obj) |->
            IF obj[k].name = key THEN [obj[k] EXCEPT !.value = @ + n] ELSE obj[k]]
    ELSE Append(obj, [name |-> key, value |-> n])
ValueOf(obj, key) ==
    IF HasKey(obj, key) THEN obj[CHOOSE k \in 1..Len(obj) : obj[k].name = key].value ELSE 0
ObjectKeys(obj) == [k \in 1..Len(obj) |-> obj[k].name]
ObjectValues(obj) == [k \in 1..Len(obj) |-> obj[k].value]

\* Array.prototype.sort with the comparator (a, b) => b.value - a.value:
\* descending by value, stable.
RECURSIVE InsertDesc(_, _)
InsertDesc(sorted, x) ==
    IF sorted = <<>> THEN <<x>>
    ELSE IF sorted[1].value >= x.value THEN <<sorted[1]>> \o InsertDesc(Tail(sorted), x)
    ELSE <<x>> \o sorted

RECURSIVE SortDescFrom(_, _)
SortDescFrom(sorted, rest) ==
    IF rest = <<>> THEN sorted
    ELSE SortDescFrom(InsertDesc(sorted, rest[1]), Tail(rest))

NoSort(list) == list
SortDesc(list) == SortDescFrom(<<>>, list)

Reverse(list) == [k \in 1..Len(list) |-> list[Len(list) + 1 - k]]
\* slice(0, n) and slice(-n)
SliceFirst(list, n) == SubSeq(list, 1, Min2(n, Len(list)))
SliceLast(list, n) == SubSeq(list, Max2(1, Len(list) - n + 1), Len(list))

\* String.prototype.toUpperCase and includes; a string is a sequence of characters
LowerLetters == <<"a","b","c","d","e","f","g","h","i","j","k","l","m",
                  "n","o","p","q","r","s","t","u","v","w","x","y","z">>
UpperLetters == <<"A","B","C","D","E","F","G","H","I","J","K","L","M",
                  "N","O","P","Q","R","S","T","U","V","W","X","Y","Z">>
CharToUpper(ch) ==
    IF \E k \in 1..26 : LowerLetters[k] = ch
    THEN UpperLetters[CHOOSE k \in 1..26 : LowerLetters[k] = ch]
    ELSE ch
toUpperCase(str) == [k \in 1..Len(str) |-> CharToUpper(str[k])]
Includes(str, ch) == \E k \in 1..Len(str) : str[k] = ch
Bit(b) == IF b THEN 1 ELSE 0

\* lines 65-80: exact-type counts and letter presence counts. A teacher
\* without mbtiType (null, undefined, "") is skipped.
RECURSIVE MbtiTypeCounts(_, _)
MbtiTypeCounts(ts, acc) ==
    IF ts = <<>> THEN acc
    ELSE IF ts[1].mbtiType = <<>> THEN MbtiTypeCounts(Tail(ts), acc)
    ELSE MbtiTypeCounts(Tail(ts), AddTo(acc, ts[1].mbtiType, 1))

RECURSIVE LetterCount(_, _)
LetterCount(ts, letter) ==
    IF ts = <<>> THEN 0
    ELSE (IF ts[1].mbtiType = <<>> THEN 0
          ELSE Bit(Includes(toUpperCase(ts[1].mbtiType), letter)))
         + LetterCount(Tail(ts), letter)

\* lines 93-100: total > 0 ? (x / total) * 100 : 0, kept as the fraction
\* [num, den] = x * 100 / total
AxisRatio(x, tot) == IF tot > 0 THEN [num |-> x * 100, den |-> tot] ELSE [num |-> 0, den |-> 1]

\* lines 61-103
analyzeMBTIDistribution(ts) ==
    LET typeCounts == MbtiTypeCounts(ts, <<>>)
        sorted == ObjectKeys(SortDesc(typeCounts))
        tot == LetterCount(ts, "E") + LetterCount(ts, "I")
    IN [typeCounts |-> typeCounts,
        mostCommon |-> SliceFirst(sorted, 3),
        rarest |-> Reverse(SliceLast(sorted, 3)),
        axisRatios |-> [E |-> AxisRatio(LetterCount(ts, "E"), tot),
                        I |-> AxisRatio(LetterCount(ts, "I"), tot),
                        S |-> AxisRatio(LetterCount(ts, "S"), tot),
                        N |-> AxisRatio(LetterCount(ts, "N"), tot),
                        T |-> AxisRatio(LetterCount(ts, "T"), tot),
                        F |-> AxisRatio(LetterCount(ts, "F"), tot),
                        J |-> AxisRatio(LetterCount(ts, "J"), tot),
                        P |-> AxisRatio(LetterCount(ts, "P"), tot)]]

\* lines 111-120: sums over the teachers that have mbtiPercentages
RECURSIVE StyleSum(_, _)
StyleSum(ts, style) ==
    IF ts = <<>> THEN 0
    ELSE (IF ts[1].mbtiPercentages = <<>> THEN 0 ELSE ts[1].mbtiPercentages[1][style])
         + StyleSum(Tail(ts), style)

RECURSIVE StyleCount(_)
StyleCount(ts) ==
    IF ts = <<>> THEN 0
    ELSE Bit(ts[1].mbtiPercentages # <<>>) + StyleCount(Tail(ts))

\* lines 105-138
analyzeLearningStyleDistribution(ts) ==
    LET count == StyleCount(ts)
    IN IF count = 0
       THEN [visual |-> 0, auditory |-> 0, reading |-> 0, kinesthetic |-> 0, dominant |-> "-"]
       ELSE LET v == RoundDiv(StyleSum(ts, "visual"), count)
                a == RoundDiv(StyleSum(ts, "auditory"), count)
                r == RoundDiv(StyleSum(ts, "reading"), count)
                k == RoundDiv(StyleSum(ts, "kinesthetic"), count)
                styles == SortDesc(<<[name |-> "Visual", value |-> v],
                                     [name |-> "Auditory", value |-> a],
                                     [name |-> "Reading", value |-> r],
                                     [name |-> "Kinesthetic", value |-> k]>>)
            IN [visual |-> v, auditory |-> a, reading |-> r, kinesthetic |-> k,
                dominant |-> styles[1].name]

\* lines 145-155: sums over the teachers that have sajuResult.fiveElements
RECURSIVE ElementSum(_, _)
ElementSum(ts, key) ==
    IF ts = <<>> THEN 0
    ELSE (IF ts[1].sajuResult = <<>> THEN 0 ELSE ts[1].sajuResult[1][key])
         + ElementSum(Tail(ts), key)

\* line 177: elem.value < avg * 0.7 with avg = total / 5
IsDeficientOrEqual(value, tot) == value * 50 <= tot * 7
IsDeficient(value, tot) == value * 50 < tot * 7

RECURSIVE DeficientNames(_, _)
DeficientNames(elements, tot) ==
    IF elements = <<>> THEN <<>>
    ELSE (IF IsDeficient(elements[1].value, tot) THEN <<elements[1].name>> ELSE <<>>)
         \o DeficientNames(Tail(elements), tot)

\* lines 140-189. The element names "목", "화", "토", "금", "수" are written
\* wood, fire, earth, metal, water.
analyzeSajuElementsDistribution(ts) ==
    LET wood == ElementSum(ts, "wood")
        fire == ElementSum(ts, "fire")
        earth == ElementSum(ts, "earth")
        metal == ElementSum(ts, "metal")
        water == ElementSum(ts, "water")
        tot == wood + fire + earth + metal + water
    IN IF tot = 0
       THEN [wood |-> 0, fire |-> 0, earth |-> 0, metal |-> 0, water |-> 0,
             dominant |-> "-", deficient |-> <<>>]
       ELSE LET elements == SortDesc(<<[name |-> "wood", value |-> wood],
                                       [name |-> "fire", value |-> fire],
                                       [name |-> "earth", value |-> earth],
                                       [name |-> "metal", value |-> metal],
                                       [name |-> "water", value |-> water]>>)
            IN [wood |-> RoundDiv(wood * 100, tot),
                fire |-> RoundDiv(fire * 100, tot),
                earth |-> RoundDiv(earth * 100, tot),
                metal |-> RoundDiv(metal * 100, tot),
                water |-> RoundDiv(water * 100, tot),
                dominant |-> elements[1].name,
                deficient |-> DeficientNames(elements, tot)]

\* lines 22-23. The subjects "수학", "영어", "국어", "과학", "사회" are written
\* math, english, korean, science, social; a grade label "중n" is <<"mid", n>>
\* and "고n" is <<"high", n>>.
SUBJECTS == <<"math", "english", "korean", "science", "social">>
GRADES == << <<"mid", 1>>, <<"mid", 2>>, <<"mid", 3>>,
             <<"high", 1>>, <<"high", 2>>, <<"high", 3>> >>

\* lines 191-194
gradeToLabel(grade) == IF grade <= 3 THEN <<"mid", grade>> ELSE <<"high", grade - 3>>

\* lines 204-208
RECURSIVE TallyGrades(_, _)
TallyGrades(gs, acc) ==
    IF gs = <<>> THEN acc
    ELSE TallyGrades(Tail(gs), AddTo(acc, gradeToLabel(gs[1]), 1))

RECURSIVE GradeCounts(_, _)
GradeCounts(ts, acc) ==
    IF ts = <<>> THEN acc
    ELSE GradeCounts(Tail(ts), TallyGrades(ts[1].studentGrades, acc))

\* lines 217-218: obj[key] = obj[key] || 0 for every fixed key
RECURSIVE EnsureKeys(_, _)
EnsureKeys(obj, keys) ==
    IF keys = <<>> THEN obj
    ELSE EnsureKeys(AddTo(obj, keys[1], 0), Tail(keys))

\* lines 210-214: tenure in years of 365 days; tenureDays = now - createdAt
RECURSIVE TierCount(_, _)
TierCount(ts, tier) ==
    IF ts = <<>> THEN 0
    ELSE LET days == ts[1].tenureDays
             t == IF days < 365 THEN "junior" ELSE IF days < 3 * 365 THEN "mid" ELSE "senior"
         IN Bit(t = tier) + TierCount(Tail(ts), tier)

\* lines 220-230: count < (teachers.length / categories) * 0.5
RECURSIVE WeakKeys(_, _, _, _)
WeakKeys(obj, keys, n, categories) ==
    IF keys = <<>> THEN <<>>
    ELSE (IF ValueOf(obj, keys[1]) * 2 * categories < n THEN <<keys[1]>> ELSE <<>>)
         \o WeakKeys(obj, Tail(keys), n, categories)

\* the coverage when every teacher is tallied under the first subject
analyzeExpertiseCoverageTallied(ts) ==
    LET subjects == AddTo(EnsureKeys(<<>>, SUBJECTS), SUBJECTS[1], Len(ts))
        grades == EnsureKeys(GradeCounts(ts, <<>>), GRADES)
    IN [subjects |-> subjects,
        grades |-> grades,
        experienceLevels |-> [junior |-> TierCount(ts, "junior"),
                              mid |-> TierCount(ts, "mid"),
                              senior |-> TierCount(ts, "senior")],
        weakSubjects |-> WeakKeys(subjects, SUBJECTS, Len(ts), Len(SUBJECTS)),
        weakGrades |-> WeakKeys(grades, GRADES, Len(ts), Len(GRADES))]

\* lines 196-239. Nothing adds to subjects before the fixed keys are set to 0.
analyzeExpertiseCoverage(ts) ==
    LET subjects == EnsureKeys(<<>>, SUBJECTS)
        grades == EnsureKeys(GradeCounts(ts, <<>>), GRADES)
    IN [subjects |-> subjects,
        grades |-> grades,
        experienceLevels |-> [junior |-> TierCount(ts, "junior"),
                              mid |-> TierCount(ts, "mid"),
                              senior |-> TierCount(ts, "senior")],
        weakSubjects |-> WeakKeys(subjects, SUBJECTS, Len(ts), Len(SUBJECTS)),
        weakGrades |-> WeakKeys(grades, GRADES, Len(ts), Len(GRADES))]

\* lines 241-248
RECURSIVE RoleCount(_, _)
RoleCount(ts, role) ==
    IF ts = <<>> THEN 0 ELSE Bit(ts[1].role = role) + RoleCount(Tail(ts), role)

analyzeRoleDistribution(ts) ==
    [TEAM_LEADER |-> RoleCount(ts, "TEAM_LEADER"),
     MANAGER |-> RoleCount(ts, "MANAGER"),
     TEACHER |-> RoleCount(ts, "TEACHER")]

\* the mean of the five components after rounding each
MeanOfFiveRounded(a, b, c, d, e) ==
    IF a.nan \/ b.nan \/ c.nan \/ d.nan \/ e.nan THEN NaN
    ELSE Num((MathRound(a).micro + MathRound(b).micro + MathRound(c).micro
              + MathRound(d).micro + MathRound(e).micro) \div 5)

\* lines 312-314: the mean of the five unrounded components
MeanOfFive(a, b, c, d, e) ==
    IF a.nan \/ b.nan \/ c.nan \/ d.nan \/ e.nan THEN NaN
    ELSE Num((a.micro + b.micro + c.micro + d.micro + e.micro) \div 5)

\* lines 272-324
calculateDiversityScore(composition) ==
    LET mbtiDiversity ==
            calculateShannonDiversity(ObjectValues(composition.mbtiDistribution.typeCounts),
                                      composition.teacherCount)
        ls == composition.learningStyleDistribution
        learningStyleDiversity ==
            calculateShannonDiversity(<<ls.visual, ls.auditory, ls.reading, ls.kinesthetic>>,
                                      composition.teacherCount * 100)
        sj == composition.sajuElementsDistribution
        sajuElementsDiversity ==
            calculateShannonDiversity(<<sj.wood, sj.fire, sj.earth, sj.metal, sj.water>>, 100)
        subjectCounts == ObjectValues(composition.expertiseCoverage.subjects)
        subjectDiversity ==
            IF SumSeq(subjectCounts) > 0
            THEN calculateShannonDiversity(subjectCounts, SumSeq(subjectCounts))
            ELSE Whole(0)
        gradeCounts == ObjectValues(composition.expertiseCoverage.grades)
        gradeDiversity ==
            IF SumSeq(gradeCounts) > 0
            THEN calculateShannonDiversity(gradeCounts, SumSeq(gradeCounts))
            ELSE Whole(0)
    IN [overall |-> MathRound(MeanOfFive(mbtiDiversity, learningStyleDiversity,
                                         sajuElementsDiversity, subjectDiversity,
                                         gradeDiversity)),
        mbtiDiversity |-> MathRound(mbtiDiversity),
        learningStyleDiversity |-> MathRound(learningStyleDiversity),
        sajuElementsDiversity |-> MathRound(sajuElementsDiversity),
        subjectDiversity |-> MathRound(subjectDiversity),
        gradeDiversity |-> MathRound(gradeDiversity)]

\* A comparison with NaN is false
LessThan(x, n) == ~x.nan /\ x.micro < n * 1000000
AtLeast(x, n) == ~x.nan /\ x.micro >= n * 1000000

\* A Recommendation, without its texts; value is -priorityOrder[priority], so
\* that the sort of lines 421-424 (ascending priorityOrder, stable) is SortDesc
Recommendation(id, type, priority) ==
    [name |-> id, type |-> type, priority |-> priority,
     value |-> CASE priority = "high" -> 0 [] priority = "medium" -> -1 [] OTHER -> -2]

\* line 337
nonVisualOfOthers(ls) == ls.auditory + ls.reading + ls.kinesthetic
nonVisual(ls) == 100 - ls.visual

\* lines 329-425
getTeamRecommendations(composition, diversityScore) ==
    LET ls == composition.learningStyleDistribution
        rec1 == IF ls.dominant = "Visual" /\ nonVisual(ls) < 40
                THEN <<Recommendation("rec-1", "diversity", "high")>> ELSE <<>>
        rec2 == IF Len(composition.sajuElementsDistribution.deficient) > 0
                THEN <<Recommendation("rec-2", "balance", "medium")>> ELSE <<>>
        rec3 == IF Len(composition.expertiseCoverage.weakSubjects) > 0
                THEN <<Recommendation("rec-3", "coverage", "high")>> ELSE <<>>
        rec4 == IF Len(composition.expertiseCoverage.weakGrades) > 0
                THEN <<Recommendation("rec-4", "coverage", "medium")>> ELSE <<>>
        rec5 == IF LessThan(diversityScore.overall, 50)
                THEN <<Recommendation("rec-5", "diversity", "medium")>> ELSE <<>>
        rec6 == IF AtLeast(diversityScore.overall, 70)
                THEN <<Recommendation("rec-6", "balance", "low")>> ELSE <<>>
    IN SortDesc(rec1 \o rec2 \o rec3 \o rec4 \o rec5 \o rec6)

\* lines 28-59 (teamId and analyzedAt are carried through and left out)
analyzeTeamComposition(ts) ==
    LET composition ==
            [teacherCount |-> Len(ts),
             mbtiDistribution |-> analyzeMBTIDistribution(ts),
             learningStyleDistribution |-> analyzeLearningStyleDistribution(ts),
             sajuElementsDistribution |-> analyzeSajuElementsDistribution(ts),
             expertiseCoverage |-> analyzeExpertiseCoverage(ts),
             roleDistribution |-> analyzeRoleDistribution(ts)]
        diversityScore == calculateDiversityScore(composition)
    IN [composition |-> composition,
        diversityScore |-> diversityScore,
        recommendations |-> getTeamRecommendations(composition, diversityScore)]

\* TeacherTeamData records the rosters are drawn from. mbtiType is a string
\* (<<>> when missing); mbtiPercentages and sajuResult are <<>> when missing,
\* else <<the four learning-style percentages>> and <<fiveElements>>;
\* tenureDays is now - createdAt in days.
Str(a, b, c, d) == <<a, b, c, d>>
Styles(v, a, r, k) == <<[visual |-> v, auditory |-> a, reading |-> r, kinesthetic |-> k]>>
Elements(wo, fi, ea, me, wa) ==
    <<[wood |-> wo, fire |-> fi, earth |-> ea, metal |-> me, water |-> wa]>>

TeacherPool == <<
    [role |-> "TEACHER", tenureDays |-> 100, mbtiType |-> Str("I", "N", "T", "J"),
     mbtiPercentages |-> Styles(70, 10, 10, 10),
     sajuResult |-> Elements(50, 10, 10, 10, 20), studentGrades |-> <<1, 2, 3>>],
    [role |-> "MANAGER", tenureDays |-> 500, mbtiType |-> Str("E", "N", "F", "P"),
     mbtiPercentages |-> Styles(25, 25, 25, 25),
     sajuResult |-> Elements(10, 30, 20, 20, 20), studentGrades |-> <<4, 5, 6>>],
    [role |-> "TEAM_LEADER", tenureDays |-> 2000, mbtiType |-> Str("i", "n", "t", "j"),
     mbtiPercentages |-> <<>>,
     sajuResult |-> <<>>, studentGrades |-> <<1, 2, 3, 4, 5, 6>>],
    [role |-> "DIRECTOR", tenureDays |-> 365, mbtiType |-> <<>>,
     mbtiPercentages |-> Styles(10, 40, 30, 20),
     sajuResult |-> Elements(7, 13, 10, 10, 10), studentGrades |-> <<>>],
    [role |-> "TEACHER", tenureDays |-> 1095, mbtiType |-> <<"E", "S">>,
     mbtiPercentages |-> Styles(0, 0, 0, 0),
     sajuResult |-> Elements(0, 0, 0, 0, 0), studentGrades |-> <<1, 1, 7>>],
    [role |-> "TEACHER", tenureDays |-> 30, mbtiType |-> Str("I", "S", "T", "P"),
     mbtiPercentages |-> Styles(20, 30, 30, 20),
     sajuResult |-> Elements(20, 20, 20, 20, 20), studentGrades |-> <<6>>] >>

MaxRoster == 4

TeamInit == roster = <<>> /\ analysis = <<>>

\* The caller puts one more teacher on the roster it will pass
AddTeacher ==
    /\ analysis = <<>>
    /\ Len(roster) < MaxRoster
    /\ \E k \in 1..Len(TeacherPool) : roster' = Append(roster, TeacherPool[k])
    /\ UNCHANGED analysis

CallAnalyze ==
    /\ analysis = <<>>
    /\ analysis' = <<analyzeTeamComposition(roster)>>
    /\ UNCHANGED roster

TeamStep == AddTeacher \/ CallAnalyze

TeamIdle == roster = <<>> /\ analysis = <<"idle">>

----------------------------------------------------------------------------
(* Fairness auditor (part_003) *)

\* Math.floor(Math.sqrt(x)) for 0 <= x < 2^31, by bisection
RECURSIVE ISqrtBetween(_, _, _)
ISqrtBetween(x, lo, hi) ==
    IF lo >= hi THEN lo
    ELSE LET mid == (lo + hi + 1) \div 2
         IN IF mid * mid <= x THEN ISqrtBetween(x, mid, hi) ELSE ISqrtBetween(x, lo, mid - 1)
ISqrt(x) == ISqrtBetween(x, 0, 46340)

\* the same Map with an entry of 0 for a teacher that received no student
RECURSIVE TeacherCountsWithIdle(_, _)
TeacherCountsWithIdle(list, acc) ==
    IF list = <<>> THEN Append(acc, [name |-> 0, value |-> 0])
    ELSE TeacherCountsWithIdle(Tail(list), AddTo(acc, list[1].teacherId, 1))

\* lines 113-119: the Map teacherId -> number of assignments, in insertion order
RECURSIVE TeacherCounts(_, _)
TeacherCounts(list, acc) ==
    IF list = <<>> THEN acc
    ELSE TeacherCounts(Tail(list), AddTo(acc, list[1].teacherId, 1))

\* lines 124-131: 1 - stdDev / mean in millionths, before the clamp. With k
\* teachers, n assignments and q the sum of the squared counts, mean = n / k,
\* variance = (k q - n^2) / k^2 and stdDev / mean = sqrt(k q - n^2) / n.
BalanceRaw(cs) ==
    LET k == Len(cs)
        n == SumSeq(cs)
        q == SumSeq([j \in 1..k |-> cs[j] * cs[j]])
    IN 1000000 - (ISqrt((k * q - n * n) * 1000000) * 1000) \div n

\* lines 110-132
calculateDistributionBalanceUnclamped(list) ==
    IF Len(list) = 0 THEN Num(1000000)
    ELSE LET cs == ObjectValues(TeacherCounts(list, <<>>))
         IN IF Len(cs) = 0 THEN Num(1000000)
            ELSE IF SumSeq(cs) = 0 THEN Num(1000000)
            ELSE Num(Min2(1000000, BalanceRaw(cs)))
calculateDistributionBalance(list) ==
    IF Len(list) = 0 THEN Num(1000000)
    ELSE LET cs == ObjectValues(TeacherCounts(list, <<>>))
         IN IF Len(cs) = 0 THEN Num(1000000)
            ELSE IF SumSeq(cs) = 0 THEN Num(1000000)
            ELSE Num(Min2(1000000, Max2(0, BalanceRaw(cs))))

MaxFairTeachers == 4
MaxPerTeacher == 7

\* The assignment lists: perTeacher[t] assignments for teacher t, teacher by
\* teacher or in the reverse order; student ids are the positions.
RECURSIVE TeacherBlocks(_, _)
TeacherBlocks(perTeacher, t) ==
    IF t > Len(perTeacher) THEN <<>>
    ELSE [j \in 1..perTeacher[t] |-> t] \o TeacherBlocks(perTeacher, t + 1)

AssignmentList(teacherIds) ==
    [j \in 1..Len(teacherIds) |->
        [studentId |-> j, teacherId |-> teacherIds[j], score |-> 10 * teacherIds[j]]]

BalanceInit ==
    /\ \E perTeacher \in [1..MaxFairTeachers -> 0..MaxPerTeacher], backwards \in BOOLEAN :
          LET ids == TeacherBlocks(perTeacher, 1)
          IN fairAssignments = AssignmentList(IF backwards THEN Reverse(ids) ELSE ids)
    /\ balance = <<>>

CallBalance ==
    /\ balance = <<>>
    /\ balance' = <<calculateDistributionBalance(fairAssignments)>>
    /\ UNCHANGED fairAssignments

FairIdle == fairAssignments = <<>> /\ balance = <<"idle">>

\* lines 81-102. The histogram has 10 bins of width 10; a score of 100 falls
\* in the last bin. With n scores and c[b] of them in bin b,
\* idealCount = n / 10, so the distance is kept multiplied by bins:
\* bins * l1Distance = sum over b of |bins * c[b] - n|.
bins == 10
binSize == 100 \div bins
BinIndexUncapped(score) == score \div binSize
BinIndex(score) == Min2(score \div binSize, bins - 1)
Histogram(list) ==
    [b \in 0..(bins - 1) |-> Cardinality({k \in 1..Len(list) : BinIndex(list[k].score) = b})]
Abs(x) == IF x < 0 THEN -x ELSE x
RECURSIVE L1DistanceTimesBins(_, _, _)
L1DistanceTimesBins(histogram, n, b) ==
    IF b = bins THEN 0
    ELSE Abs(bins * histogram[b] - n) + L1DistanceTimesBins(histogram, n, b + 1)

\* line 100
maxL1Distance(n) == 2 * n

calculateABROCA(list) ==
    IF Len(list) = 0 THEN Num(0)
    ELSE LET n == Len(list)
             ratio == ToMicro(L1DistanceTimesBins(Histogram(list), n, 0),
                              bins * maxL1Distance(n))
         IN Num(Min2(1000000, Max2(0, ratio)))

\* A Map<string, string> in insertion order: a sequence of [name, value];
\* Map.prototype.get gives <<>> (undefined) or <<value>>.
MapGet(map, key) ==
    IF HasKey(map, key) THEN <<map[CHOOSE k \in 1..Len(map) : map[k].name = key].value>>
    ELSE <<>>

\* line 54: !group holds for undefined and for the empty string
NoGroupUndefinedOnly(group) == group = <<>>
NoGroup(group) == group = <<>> \/ group[1] = ""

\* lines 51-58: the Map group -> scores, a sequence of [name, value] where
\* value is the list of the group's scores
RECURSIVE GroupScores(_, _, _)
GroupScores(list, map, acc) ==
    IF list = <<>> THEN acc
    ELSE LET group == MapGet(map, list[1].studentId)
         IN IF NoGroup(group) THEN GroupScores(Tail(list), map, acc)
            ELSE LET g == group[1]
                     next == IF HasKey(acc, g)
                             THEN [k \in 1..Len(acc) |->
                                     IF acc[k].name = g
                                     THEN [acc[k] EXCEPT !.value = Append(@, list[1].score)]
                                     ELSE acc[k]]
                             ELSE Append(acc, [name |-> g, value |-> <<list[1].score>>])
                 IN GroupScores(Tail(list), map, next)

\* lines 60-65: the averages, as exact fractions sum / length
GroupAverages(groupScores) ==
    [k \in 1..Len(groupScores) |->
        [num |-> SumSeq(groupScores[k].value), den |-> Len(groupScores[k].value)]]

\* Math.max(...) and Math.min(...) of fractions with positive denominators
FracLeq(a, b) == a.num * b.den <= b.num * a.den
RECURSIVE MaxFrac(_)
MaxFrac(fs) ==
    IF Len(fs) = 1 THEN fs[1]
    ELSE LET rest == MaxFrac(Tail(fs)) IN IF FracLeq(rest, fs[1]) THEN fs[1] ELSE rest
RECURSIVE MinFrac(_)
MinFrac(fs) ==
    IF Len(fs) = 1 THEN fs[1]
    ELSE LET rest == MinFrac(Tail(fs)) IN IF FracLeq(fs[1], rest) THEN fs[1] ELSE rest

\* lines 45-73
calculateDisparityIndex(list, map) ==
    IF Len(list) = 0 THEN Num(0)
    ELSE LET groupAverages == GroupAverages(GroupScores(list, map, <<>>))
         IN IF Len(groupAverages) < 2 THEN Num(0)
            ELSE LET maxScore == MaxFrac(groupAverages)
                     minScore == MinFrac(groupAverages)
                     num == maxScore.num * minScore.den - minScore.num * maxScore.den
                     den == 100 * maxScore.den * minScore.den
                 IN Num(Min2(1000000, Max2(0, ToMicro(num, den))))

\* lines 134-159; the four messages are named by what they are about
DisparityFiresAtThreshold(x) == x.micro >= 200000
DisparityFires(x) == x.micro > 200000
SkewFires(x) == x.micro > 300000
BalanceFires(x) == x.micro < 700000
generateFairnessRecommendations(m) ==
    LET recommendations ==
            (IF DisparityFires(m.disparityIndex) THEN <<"disparity">> ELSE <<>>)
            \o (IF SkewFires(m.abroca) THEN <<"skew">> ELSE <<>>)
            \o (IF BalanceFires(m.distributionBalance) THEN <<"balance">> ELSE <<>>)
    IN IF Len(recommendations) = 0 THEN <<"normal">> ELSE recommendations

\* lines 20-37
calculateFairnessMetrics(list, optMap) ==
    LET m == [disparityIndex |-> IF optMap # <<>>
                                 THEN calculateDisparityIndex(list, optMap[1])
                                 ELSE Num(0),
              abroca |-> calculateABROCA(list),
              distributionBalance |-> calculateDistributionBalance(list)]
    IN [disparityIndex |-> m.disparityIndex,
        abroca |-> m.abroca,
        distributionBalance |-> m.distributionBalance,
        recommendations |-> generateFairnessRecommendations(m)]

MaxPerBin == 1

\* Score lists for calculateABROCA: perBin[b] scores in bin b, each bin filled
\* with its lowest score or with its highest one (100 in the last bin).
RECURSIVE BinBlocks(_, _, _)
BinBlocks(perBin, b, high) ==
    IF b = bins THEN <<>>
    ELSE LET score == IF ~high THEN b * binSize
                      ELSE IF b = bins - 1 THEN 100 ELSE b * binSize + binSize - 1
         IN [j \in 1..perBin[b] |-> score] \o BinBlocks(perBin, b + 1, high)

ScoredList(scores) ==
    [j \in 1..Len(scores) |-> [studentId |-> j, teacherId |-> 1, score |-> scores[j]]]

AbrocaInit ==
    /\ \E perBin \in [0..(bins - 1) -> 0..MaxPerBin], high \in BOOLEAN :
          fairAssignments = ScoredList(BinBlocks(perBin, 0, high))
    /\ balance = <<>>
    /\ studentGroupMap = <<>>
    /\ abroca = <<>>
    /\ metrics = <<"idle">>

CallABROCA ==
    /\ abroca = <<>>
    /\ abroca' = <<calculateABROCA(fairAssignments)>>
    /\ UNCHANGED <<fairAssignments, balance, studentGroupMap, metrics>>

MaxTail == 2

\* Assignment lists for calculateFairnessMetrics: a block of 0, 3, 8 or 10
\* assignments with one score per bin, followed by up to MaxTail free ones.
SpreadSizes == {0, 3, 8, 10}
TailScores == {0, 20, 100}
TailTeachers == {1}
Labels == {"", "A", "B"}
TailEntries == [teacherId : TailTeachers, score : TailScores, label : Optional(Labels)]
TailLists == UNION {[1..n -> TailEntries] : n \in 0..MaxTail}

SpreadBlock(k, teacherPattern) ==
    [j \in 1..k |->
        [studentId |-> j,
         teacherId |-> IF teacherPattern = "even" THEN 1 + (j % 2)
                       ELSE IF teacherPattern = "single" THEN 1
                       ELSE IF j = 1 THEN 2 ELSE 1,
         score |-> (j - 1) * binSize + 5]]
SpreadLabel(k, groupPattern, j) ==
    IF groupPattern = "none" THEN <<>>
    ELSE IF groupPattern = "halves" THEN (IF 2 * j <= k THEN <<"A">> ELSE <<"B">>)
    ELSE (IF j % 2 = 1 THEN <<"A">> ELSE <<"B">>)
TailBlock(k, tail) ==
    [j \in 1..Len(tail) |->
        [studentId |-> k + j, teacherId |-> tail[j].teacherId, score |-> tail[j].score]]

\* the Map of the students that have an entry; labels[j] is <<>> or <<label>>
RECURSIVE GroupMapOf(_, _)
GroupMapOf(labels, j) ==
    IF j > Len(labels) THEN <<>>
    ELSE (IF labels[j] = <<>> THEN <<>> ELSE <<[name |-> j, value |-> labels[j][1]]>>)
         \o GroupMapOf(labels, j + 1)

FairnessInit ==
    /\ \E k \in SpreadSizes, teacherPattern \in {"even", "skewed", "single"},
          groupPattern \in {"none", "halves", "alternate"}, tail \in TailLists,
          withMap \in BOOLEAN :
          /\ k = 0 => teacherPattern = "even" /\ groupPattern = "none"
          /\ ~withMap => groupPattern = "none" /\ \A j \in 1..Len(tail) : tail[j].label = <<>>
          /\ fairAssignments = SpreadBlock(k, teacherPattern) \o TailBlock(k, tail)
          /\ studentGroupMap =
                IF withMap
                THEN <<GroupMapOf([j \in 1..k |-> SpreadLabel(k, groupPattern, j)]
                                  \o [j \in 1..Len(tail) |-> tail[j].label], 1)>>
                ELSE <<>>
    /\ balance = <<>>
    /\ abroca = <<"idle">>
    /\ metrics = <<>>

CallFairnessMetrics ==
    /\ metrics = <<>>
    /\ metrics' = <<calculateFairnessMetrics(fairAssignments, studentGroupMap)>>
    /\ UNCHANGED <<fairAssignments, balance, studentGroupMap, abroca>>

MetricsIdle == studentGroupMap = <<>> /\ abroca = <<"idle">> /\ metrics = <<"idle">>
----------------------------------------------------------------------------
(* getTeamRecommendations on compositions of every shape *)

\* The fields of the composition and of the diversity score the rules read
RecommendInit ==
    /\ \E dominant \in {"Visual", "Auditory", "-"}, visual \in {0, 60, 61, 100},
          other \in {0, 13},
          deficient \in {<<>>, <<"fire">>},
          weakSubjects \in {<<>>, <<SUBJECTS[1]>>},
          weakGrades \in {<<>>, <<GRADES[1]>>} :
          recComposition =
              [learningStyleDistribution |->
                   [visual |-> visual, auditory |-> other, reading |-> other,
                    kinesthetic |-> other, dominant |-> dominant],
               sajuElementsDistribution |-> [deficient |-> deficient],
               expertiseCoverage |-> [weakSubjects |-> weakSubjects, weakGrades |-> weakGrades]]
    /\ \E overall \in {NaN, Whole(0), Whole(49), Whole(50), Whole(69), Whole(70), Whole(100)} :
          recDiversityScore = [overall |-> overall]
    /\ recResult = <<>>

CallRecommend ==
    /\ recResult = <<>>
    /\ recResult' = <<getTeamRecommendations(recComposition, recDiversityScore)>>
    /\ UNCHANGED <<recComposition, recDiversityScore>>

RecommendIdle ==
    recComposition = <<>> /\ recDiversityScore = <<>> /\ recResult = <<"idle">>
----------------------------------------------------------------------------
(* Assignment proposals (src/repositories/assignment.ts). Every Prisma       *)
(* operation is one atomic step on the database; a call is suspended at each *)
(* await, where the steps of other calls may come in between.                *)

MaxCalls == 2
MaxProposalSize == 2

Calls == 1..MaxCalls

\* proposal.assignments: assignment k moves student k to teacher k
ProposalAssignments(n) == [k \in 1..n |-> [studentId |-> k, teacherId |-> k]]

NewCall == [op |-> "none", pc |-> "idle", pending |-> {}, failed |-> FALSE,
            updates |-> 0, result |-> "none"]

\* createAssignmentProposal stores the proposal with status "pending" (line 59)
ProposalInit ==
    /\ proposalExists \in BOOLEAN
    /\ proposalStatus = IF proposalExists THEN "pending" ELSE "none"
    /\ studentExists \in UNION {[1..n -> BOOLEAN] : n \in 0..MaxProposalSize}
    /\ studentTeacher = [k \in 1..Len(studentExists) |-> 0]
    /\ calls = [c \in Calls |-> NewCall]

\* lines 144-165: findUnique, the two checks, and the issue of one
\* db.student.update per assignment (the updates themselves run later)
ApplyFind(c) ==
    /\ calls[c].pc = "idle"
    /\ calls' = [calls EXCEPT ![c] =
          IF ~proposalExists
          THEN [@ EXCEPT !.op = "apply", !.pc = "done", !.result = "notFound"]
          ELSE IF proposalStatus # "pending"
          THEN [@ EXCEPT !.op = "apply", !.pc = "done", !.result = "alreadyProcessed"]
          ELSE [@ EXCEPT !.op = "apply", !.pc = "update",
                         !.pending = 1..Len(ProposalAssignments(Len(studentExists)))]]
    /\ UNCHANGED <<proposalExists, proposalStatus, studentExists, studentTeacher>>

\* lines 161-164: one db.student.update; it rejects when the student is gone
StudentUpdate(c, k) ==
    /\ k \in calls[c].pending
    /\ LET a == ProposalAssignments(Len(studentExists))[k]
       IN IF studentExists[a.studentId]
          THEN /\ studentTeacher' = [studentTeacher EXCEPT ![a.studentId] = a.teacherId]
               /\ calls' = [calls EXCEPT ![c].pending = @ \ {k}, ![c].updates = @ + 1]
          ELSE /\ calls' = [calls EXCEPT ![c].pending = @ \ {k}, ![c].failed = TRUE]
               /\ UNCHANGED studentTeacher
    /\ UNCHANGED <<proposalExists, proposalStatus, studentExists>>

\* line 167: Promise.all rejects with the first rejected update; the updates
\* still pending go on
ApplyThrow(c) ==
    /\ calls[c].pc = "update"
    /\ calls[c].failed
    /\ calls' = [calls EXCEPT ![c].pc = "done", ![c].result = "updateFailed"]
    /\ UNCHANGED <<proposalExists, proposalStatus, studentExists, studentTeacher>>

\* lines 167-178: all updates fulfilled, the status is written and the call returns
ApplyApprove(c) ==
    /\ calls[c].pc = "update"
    /\ calls[c].pending = {}
    /\ ~calls[c].failed
    /\ proposalStatus' = "approved"
    /\ calls' = [calls EXCEPT ![c].pc = "done", ![c].result = "success"]
    /\ UNCHANGED <<proposalExists, studentExists, studentTeacher>>

\* lines 187-192: update by id, whatever the status is
rejectAssignmentProposal(c) ==
    /\ calls[c].pc = "idle"
    /\ IF proposalExists
       THEN /\ proposalStatus' = "rejected"
            /\ calls' = [calls EXCEPT ![c].op = "reject", ![c].pc = "done",
                                      ![c].result = "rejected"]
       ELSE /\ calls' = [calls EXCEPT ![c].op = "reject", ![c].pc = "done",
                                      ![c].result = "notFound"]
            /\ UNCHANGED proposalStatus
    /\ UNCHANGED <<proposalExists, studentExists, studentTeacher>>

applyAssignmentProposal(c) ==
    \/ ApplyFind(c)
    \/ \E k \in 1..Len(studentExists) : StudentUpdate(c, k)
    \/ ApplyThrow(c)
    \/ ApplyApprove(c)

ProposalStep == \E c \in Calls : applyAssignmentProposal(c) \/ rejectAssignmentProposal(c)

ProposalIdle ==
    /\ proposalExists = FALSE /\ proposalStatus = "idle"
    /\ studentExists = <<>> /\ studentTeacher = <<>> /\ calls = <<>>

----------------------------------------------------------------------------
(* Specifications *)

AssignIdle ==
    /\ students = <<>> /\ teachers = <<>> /\ scoreRange = {} /\ pc = "idle"
    /\ options = [maxStudentsPerTeacher |-> <<>>, minCompatibilityThreshold |-> <<>>]
    /\ idx = 1 /\ maxLoad = 0 /\ teacherLoads = <<>> /\ assignments = <<>>
    /\ lastScores = <<>>

OthersIdle == RecommendIdle /\ ProposalIdle

\* generateAutoAssignment on arbitrary inputs
Init == AssignInit /\ ShannonIdle /\ TeamIdle /\ FairIdle /\ MetricsIdle /\ OthersIdle
Next == AssignStep /\ UNCHANGED <<shannonVars, teamVars, fairVars, metricsVars, recVars, proposalVars>>
Spec == Init /\ [][Next]_vars

\* generateAutoAssignment with a constant scoring function
InitAssignConst == AssignConstInit /\ ShannonIdle /\ TeamIdle /\ FairIdle /\ MetricsIdle /\ OthersIdle
SpecAssignConst == InitAssignConst /\ [][Next]_vars

\* calculateShannonDiversity on arbitrary counts
InitShannon == ShannonInit /\ AssignIdle /\ TeamIdle /\ FairIdle /\ MetricsIdle /\ OthersIdle
NextShannon == CallShannon /\ UNCHANGED <<assignVars, teamVars, fairVars, metricsVars, recVars, proposalVars>>
SpecShannon == InitShannon /\ [][NextShannon]_vars

\* analyzeTeamComposition on the rosters over TeacherPool
InitTeam == TeamInit /\ AssignIdle /\ ShannonIdle /\ FairIdle /\ MetricsIdle /\ OthersIdle
NextTeam == TeamStep /\ UNCHANGED <<assignVars, shannonVars, fairVars, metricsVars, recVars, proposalVars>>
SpecTeam == InitTeam /\ [][NextTeam]_vars

\* calculateDistributionBalance on assignment lists of every per-teacher count
InitBalance == BalanceInit /\ AssignIdle /\ ShannonIdle /\ TeamIdle /\ MetricsIdle /\ OthersIdle
NextBalance == CallBalance /\ UNCHANGED <<assignVars, shannonVars, teamVars, metricsVars, recVars, proposalVars>>
SpecBalance == InitBalance /\ [][NextBalance]_vars

\* calculateABROCA on score lists of every histogram
InitAbroca == AbrocaInit /\ AssignIdle /\ ShannonIdle /\ TeamIdle /\ OthersIdle
NextAbroca == CallABROCA /\ UNCHANGED <<assignVars, shannonVars, teamVars, recVars, proposalVars>>
SpecAbroca == InitAbroca /\ [][NextAbroca]_vars

\* calculateFairnessMetrics on assignment lists with and without a group map
InitFairness == FairnessInit /\ AssignIdle /\ ShannonIdle /\ TeamIdle /\ OthersIdle
NextFairness == CallFairnessMetrics /\ UNCHANGED <<assignVars, shannonVars, teamVars, recVars, proposalVars>>
SpecFairness == InitFairness /\ [][NextFairness]_vars

AllButRecommendIdle ==
    AssignIdle /\ ShannonIdle /\ TeamIdle /\ FairIdle /\ MetricsIdle /\ ProposalIdle
AllButProposalIdle ==
    AssignIdle /\ ShannonIdle /\ TeamIdle /\ FairIdle /\ MetricsIdle /\ RecommendIdle

\* getTeamRecommendations on compositions of every shape
InitRecommend == RecommendInit /\ AllButRecommendIdle
NextRecommend ==
    CallRecommend
    /\ UNCHANGED <<assignVars, shannonVars, teamVars, fairVars, metricsVars, proposalVars>>
SpecRecommend == InitRecommend /\ [][NextRecommend]_vars

\* concurrent applyAssignmentProposal and rejectAssignmentProposal calls on one proposal
InitProposal == ProposalInit /\ AllButProposalIdle
NextProposal ==
    ProposalStep
    /\ UNCHANGED <<assignVars, shannonVars, teamVars, fairVars, metricsVars, recVars>>
SpecProposal == InitProposal /\ [][NextProposal]_vars

----------------------------------------------------------------------------
(* Claims about generateAutoAssignment *)

\* Number of returned assignments naming teacher t
AssignedTo(t) == Cardinality({k \in 1..Len(assignments) : assignments[k].teacherId = t})

\* The cap as the claims define it: the option if given, otherwise the least
\* integer not below students.length / teachers.length * 1.2
ClaimedCap ==
    IF options.maxStudentsPerTeacher # <<>>
    THEN options.maxStudentsPerTeacher[1]
    ELSE CHOOSE c \in 0..(2 * Len(students) + 1) :
            /\ 5 * Len(teachers) * c >= 6 * Len(students)
            /\ 5 * Len(teachers) * (c - 1) < 6 * Len(students)

Ran == pc = "done" /\ Len(students) > 0 /\ Len(teachers) > 0

\* C1 (as stated): after a run with non-empty students and teachers, every
\* teacher's starting load plus the number of assignments naming the teacher
\* is at most the effective cap, whatever the starting load.
C1_LoadWithinCap ==
    Ran => \A t \in 1..Len(teachers) : teachers[t] + AssignedTo(t) <= ClaimedCap

\* C1 (amended): after such a run a teacher who started at or below the cap
\* ends at or below the cap, and a teacher who started above the cap received
\* no assignment (post-run load <= max(starting load, cap)).
C1_LoadWithinCapOrUntouched ==
    Ran => \A t \in 1..Len(teachers) :
              /\ teachers[t] <= ClaimedCap => teachers[t] + AssignedTo(t) <= ClaimedCap
              /\ teachers[t] > ClaimedCap => AssignedTo(t) = 0

\* C1 witness: a teacher was filled up to the cap and a student was left out.
C1_Witness ==
    /\ Ran
    /\ Len(assignments) < Len(students)
    /\ \E t \in 1..Len(teachers) :
          AssignedTo(t) > 0 /\ teachers[t] + AssignedTo(t) = ClaimedCap

\* Occurrences of id among the studentIds of a list of assignments / of ids
OccursIn(list, id) == Cardinality({k \in 1..Len(list) : list[k].studentId = id})
OccursInInput(id) == Cardinality({k \in 1..Len(students) : students[k] = id})

\* C2 (as stated): for every input no studentId appears in more than one
\* entry of the returned list.
C2_NoStudentTwice ==
    \A a, b \in 1..Len(assignments) :
        a # b => assignments[a].studentId # assignments[b].studentId

\* C2 (amended): a studentId appears in the returned list at most as often as
\* it appears in the students input; so no studentId appears twice when the
\* input ids are distinct.
C2_NoMoreThanPresented ==
    \A id \in 1..MaxStudents : OccursIn(assignments, id) <= OccursInInput(id)

\* C2 witness: two students with distinct ids, both assigned.
C2_Witness ==
    /\ pc = "done"
    /\ Len(students) = 2 /\ students[1] # students[2]
    /\ Len(assignments) = 2

\* The teachers that are under the cap and not below the threshold for the
\* student being processed in a step (loads before, scores of the step).
ClaimedEligible ==
    {t \in 1..Len(teachers) :
        /\ teacherLoads[t] < maxLoad
        /\ ~(/\ options.minCompatibilityThreshold # <<>>
              /\ lastScores'[t][1] < options.minCompatibilityThreshold[1])}

\* C3: a processed student is omitted iff every teacher is at or above the
\* cap or scores below the threshold; otherwise exactly that student is
\* appended to the result.
C3_OmittedIffNoneEligible ==
    [][idx' = idx + 1 =>
          /\ (ClaimedEligible = {}) <=> (assignments' = assignments)
          /\ ClaimedEligible # {} =>
                /\ Len(assignments') = Len(assignments) + 1
                /\ SubSeq(assignments', 1, Len(assignments)) = assignments
                /\ assignments'[Len(assignments')].studentId = students[idx]]_vars

\* C3 witness: one student was assigned and another was omitted.
C3_Witness ==
    /\ pc = "done"
    /\ Len(students) = 2
    /\ Len(assignments) = 1
    /\ options.minCompatibilityThreshold # <<>>
    /\ options.minCompatibilityThreshold[1] > 0

\* C4: the chosen teacher has the highest score among the eligible teachers,
\* and is the earliest of those with that score.
C4_BestFirstSeen ==
    [][(idx' = idx + 1 /\ assignments' # assignments) =>
          LET chosen == assignments'[Len(assignments')]
              c == chosen.teacherId
          IN /\ c \in ClaimedEligible
             /\ chosen.score = lastScores'[c][1]
             /\ \A t \in ClaimedEligible :
                   /\ lastScores'[t][1] <= lastScores'[c][1]
                   /\ lastScores'[t][1] = lastScores'[c][1] => c <= t]_vars

\* C4 witness: the first student saw two eligible teachers with equal scores
\* and went to the first of them.
C4_Witness ==
    /\ idx = 2 /\ pc = "loop"
    /\ Len(teachers) >= 2
    /\ teachers[1] < maxLoad /\ teachers[2] < maxLoad
    /\ lastScores[1] # <<>> /\ lastScores[1] = lastScores[2]
    /\ Len(assignments) = 1
    /\ assignments[1].teacherId = 1

\* s is a subsequence of t
RECURSIVE IsSubsequence(_, _)
IsSubsequence(s, t) ==
    IF s = <<>> THEN TRUE
    ELSE IF t = <<>> THEN FALSE
    ELSE IF s[1] = t[1] THEN IsSubsequence(Tail(s), Tail(t))
    ELSE IsSubsequence(s, Tail(t))

\* C5: the returned list has at most students.length entries, its studentIds
\* are a subsequence of the students input, and it is empty when students or
\* teachers is empty.
C5_SubsequenceOfInput ==
    /\ Len(assignments) <= Len(students)
    /\ IsSubsequence([k \in 1..Len(assignments) |-> assignments[k].studentId], students)
    /\ (pc = "done" /\ (Len(students) = 0 \/ Len(teachers) = 0)) => assignments = <<>>

\* C5 witness: of two students only the second was placed.
C5_Witness ==
    /\ pc = "done"
    /\ Len(students) = 2 /\ students[1] # students[2]
    /\ Len(assignments) = 1
    /\ assignments[1].studentId = students[2]

\* C6: constant score, T teachers at load 0, cap c, T*c students: every
\* student is assigned, each teacher receives exactly c, and the load
\* statistics of the final loads have range 0.
C6_EvenSplit ==
    pc = "done" =>
        /\ Len(assignments) = Len(students)
        /\ \A t \in 1..Len(teachers) :
              AssignedTo(t) = options.maxStudentsPerTeacher[1]
        /\ calculateLoadStats(
              [t \in 1..Len(teachers) |-> teachers[t] + AssignedTo(t)]).range = 0

\* C6 witness: the case of 2 teachers, cap 5, 10 students, constant score 80.
C6_Witness ==
    /\ pc = "done"
    /\ Len(teachers) = 2
    /\ options.maxStudentsPerTeacher = <<5>>
    /\ Len(students) = 10
    /\ scoreRange = {80}
    /\ Len(assignments) = 10

----------------------------------------------------------------------------
(* Claims about calculateShannonDiversity *)

\* C7: calculateShannonDiversity returns a number in [0,100], never NaN; it
\* returns 0 when total is 0, and 0 when there is a single category that
\* holds all the mass.
C7_ShannonDefined ==
    shannon # <<>> =>
        /\ ~shannon[1].nan
        /\ shannon[1].micro >= 0 /\ shannon[1].micro <= 100 * 1000000
        /\ total = 0 => shannon[1].micro = 0
        /\ (Len(counts) = 1 /\ counts[1] = total) => shannon[1].micro = 0

----------------------------------------------------------------------------
(* Claims about analyzeTeamComposition *)

Analyzed == analysis # <<>>
Composition == analysis[1].composition

\* Every teacher of the roster has the same MBTI exact type
SameExactType ==
    /\ Len(roster) >= 1
    /\ roster[1].mbtiType # <<>>
    /\ \A k \in 1..Len(roster) : roster[k].mbtiType = roster[1].mbtiType

\* C8: for a roster whose teachers all share one MBTI exact type, mostCommon
\* has length 1, mbtiDiversity is 0 and overall is an integer in [0,100].
C8_SameTypeNoDiversity ==
    (Analyzed /\ SameExactType) =>
        /\ Len(Composition.mbtiDistribution.mostCommon) = 1
        /\ analysis[1].diversityScore.mbtiDiversity = Whole(0)
        /\ ~analysis[1].diversityScore.overall.nan
        /\ analysis[1].diversityScore.overall.micro % 1000000 = 0
        /\ analysis[1].diversityScore.overall.micro >= 0
        /\ analysis[1].diversityScore.overall.micro <= 100 * 1000000

\* The raw summed weight of an element over the teachers with saju data
RECURSIVE RawElementSum(_, _)
RawElementSum(k, key) ==
    IF k = 0 THEN 0
    ELSE RawElementSum(k - 1, key)
         + (IF roster[k].sajuResult = <<>> THEN 0 ELSE roster[k].sajuResult[1][key])

ElementKeys == {"wood", "fire", "earth", "metal", "water"}
RawElementTotal ==
    RawElementSum(Len(roster), "wood") + RawElementSum(Len(roster), "fire")
    + RawElementSum(Len(roster), "earth") + RawElementSum(Len(roster), "metal")
    + RawElementSum(Len(roster), "water")
DeficientSet ==
    {Composition.sajuElementsDistribution.deficient[k] :
        k \in 1..Len(Composition.sajuElementsDistribution.deficient)}
SpecExampleSums ==
    /\ RawElementSum(Len(roster), "wood") = 50
    /\ RawElementSum(Len(roster), "fire") = 10
    /\ RawElementSum(Len(roster), "earth") = 10
    /\ RawElementSum(Len(roster), "metal") = 10
    /\ RawElementSum(Len(roster), "water") = 20

\* C9: an element is deficient iff its raw sum is strictly below 70% of the
\* mean of the five sums (sums 50, 10, 10, 10, 20 flag fire, earth and metal);
\* when the total is 0 the percentages are 0, dominant is "-" and deficient is empty.
C9_DeficientBelowSeventyPercent ==
    Analyzed =>
        LET dist == Composition.sajuElementsDistribution
        IN /\ RawElementTotal > 0 =>
                \A key \in ElementKeys :
                    (key \in DeficientSet) <=>
                        (10 * 5 * RawElementSum(Len(roster), key) < 7 * RawElementTotal)
           /\ SpecExampleSums => DeficientSet = {"fire", "earth", "metal"}
           /\ RawElementTotal = 0 =>
                /\ dist.wood = 0 /\ dist.fire = 0 /\ dist.earth = 0
                /\ dist.metal = 0 /\ dist.water = 0
                /\ dist.dominant = "-"
                /\ dist.deficient = <<>>

\* C9 witness: the sums 50, 10, 10, 10, 20 over a roster of several teachers
C9_Witness ==
    /\ Analyzed
    /\ Len(roster) >= 2
    /\ SpecExampleSums
    /\ Len(Composition.sajuElementsDistribution.deficient) = 3

----------------------------------------------------------------------------
(* Claims about calculateDistributionBalance *)

TeachersAssigned == {fairAssignments[k].teacherId : k \in 1..Len(fairAssignments)}
AssignmentsOf(t) ==
    Cardinality({k \in 1..Len(fairAssignments) : fairAssignments[k].teacherId = t})

\* C10: the balance is 1 for an empty list and whenever every teacher that
\* appears has the same number of assignments, and always lies in [0,1].
C10_BalanceOfEqualCounts ==
    balance # <<>> =>
        /\ ~balance[1].nan
        /\ balance[1].micro >= 0 /\ balance[1].micro <= 1000000
        /\ fairAssignments = <<>> => balance[1].micro = 1000000
        /\ (\A t, u \in TeachersAssigned : AssignmentsOf(t) = AssignmentsOf(u))
              => balance[1].micro = 1000000

\* C10 witness: 3 teachers with 4 assignments each
C10_Witness ==
    /\ balance # <<>>
    /\ Cardinality(TeachersAssigned) = 3
    /\ \A t \in TeachersAssigned : AssignmentsOf(t) = 4
    /\ balance[1].micro = 1000000

----------------------------------------------------------------------------
(* Claims about calculateABROCA *)

\* the 10 fixed-width bins of the histogram; 100 belongs to the last one
InBin(score, b) ==
    IF b = 9 THEN score >= 90 /\ score <= 100
    ELSE score >= 10 * b /\ score < 10 * b + 10
ScoresInBin(b) ==
    Cardinality({k \in 1..Len(fairAssignments) : InBin(fairAssignments[k].score, b)})

\* C11: calculateABROCA returns 0 for an empty list and whenever the 10 bins
\* hold the same number of scores, and its result always lies in [0,1].
C11_AbrocaZeroWhenUniform ==
    abroca # <<>> =>
        /\ ~abroca[1].nan
        /\ abroca[1].micro >= 0 /\ abroca[1].micro <= 1000000
        /\ fairAssignments = <<>> => abroca[1].micro = 0
        /\ (\A b, c \in 0..9 : ScoresInBin(b) = ScoresInBin(c)) => abroca[1].micro = 0

\* C11 witness: one score in each bin, the last bin holding a score of 100
C11_Witness ==
    /\ abroca # <<>>
    /\ \A b \in 0..9 : ScoresInBin(b) = 1
    /\ \E k \in 1..Len(fairAssignments) : fairAssignments[k].score = 100
    /\ abroca[1].micro = 0

\* C19: when all the scores fall in one bin, which is the most skewed
\* histogram, the distance reaches the normalizer and abroca is 1.
C19_OneBinYieldsOne ==
    abroca # <<>> =>
        ((fairAssignments # <<>> /\ \E b \in 0..9 : ScoresInBin(b) = Len(fairAssignments))
            => abroca[1].micro = 1000000)

----------------------------------------------------------------------------
(* Claims about calculateFairnessMetrics *)

Reported == metrics[1]
Positions == 1..Len(fairAssignments)

\* the labels the supplied map gives to the student of assignment k (none or one)
LabelsOf(k) ==
    IF studentGroupMap = <<>> THEN {}
    ELSE LET map == studentGroupMap[1]
         IN {map[i].value : i \in {i \in 1..Len(map) : map[i].name = fairAssignments[k].studentId}}
MembersOf(g) == {k \in Positions : g \in LabelsOf(k)}
RECURSIVE ScoreSum(_)
ScoreSum(ks) ==
    IF ks = {} THEN 0
    ELSE LET k == CHOOSE k \in ks : TRUE IN fairAssignments[k].score + ScoreSum(ks \ {k})
\* average of g is at most the average of h
AverageLeq(g, h) ==
    ScoreSum(MembersOf(g)) * Cardinality(MembersOf(h))
        <= ScoreSum(MembersOf(h)) * Cardinality(MembersOf(g))
\* (average of hi - average of lo) / 100, clamped to [0,1], in millionths
AverageGap(hi, lo) ==
    LET num == ScoreSum(MembersOf(hi)) * Cardinality(MembersOf(lo))
               - ScoreSum(MembersOf(lo)) * Cardinality(MembersOf(hi))
        den == 100 * Cardinality(MembersOf(hi)) * Cardinality(MembersOf(lo))
    IN Min2(1000000, Max2(0, ToMicro(num, den)))
\* the disparity the claim describes, for the set of groups that have data
DisparityOver(groups) ==
    IF studentGroupMap = <<>> \/ Cardinality(groups) < 2 THEN 0
    ELSE LET hi == CHOOSE g \in groups : \A h \in groups : AverageLeq(h, g)
             lo == CHOOSE g \in groups : \A h \in groups : AverageLeq(g, h)
         IN AverageGap(hi, lo)

\* every label some assignment's student has in the map, and the non-empty ones
GroupsWithData == UNION {LabelsOf(k) : k \in Positions}
NamedGroupsWithData == GroupsWithData \ {""}

\* C12: the disparity index is 0 without a group map or with fewer than two
\* groups that have a labelled assignment, and otherwise the gap between the
\* largest and the smallest group average over 100, clamped to [0,1];
\* assignments of students absent from the map are ignored.
C12_DisparityOfGroups ==
    metrics # <<>> =>
        /\ ~Reported.disparityIndex.nan
        /\ Reported.disparityIndex.micro = DisparityOver(GroupsWithData)

\* C12 as it holds: the same, where an assignment is also ignored when its
\* student's label is the empty string.
C12_DisparityOfNamedGroups ==
    metrics # <<>> =>
        /\ ~Reported.disparityIndex.nan
        /\ Reported.disparityIndex.micro = DisparityOver(NamedGroupsWithData)

\* C12 witness: two named groups with different averages, next to a student
\* absent from the map and a student whose label is empty
C12_Witness ==
    /\ metrics # <<>>
    /\ studentGroupMap # <<>>
    /\ Cardinality(NamedGroupsWithData) = 2
    /\ "" \in GroupsWithData
    /\ \E k \in Positions : LabelsOf(k) = {}
    /\ Reported.disparityIndex.micro > 0
    /\ Reported.disparityIndex.micro < 1000000

Occurrences(list, x) == Cardinality({k \in 1..Len(list) : list[k] = x})
Precedes(list, x, y) ==
    \A i, j \in 1..Len(list) : (list[i] = x /\ list[j] = y) => i < j

\* C13: the recommendations are never empty; the disparity advisory is there
\* iff disparityIndex > 0.2, the skew advisory iff abroca > 0.3, the balance
\* advisory iff distributionBalance < 0.7, each at most once and in that
\* order; the list is the single normal-range message iff no threshold is crossed.
C13_AdvisoriesMatchThresholds ==
    metrics # <<>> =>
        LET recs == Reported.recommendations
            d == Reported.disparityIndex.micro > 200000
            s == Reported.abroca.micro > 300000
            b == Reported.distributionBalance.micro < 700000
        IN /\ Len(recs) >= 1
           /\ \A k \in 1..Len(recs) : recs[k] \in {"disparity", "skew", "balance", "normal"}
           /\ \A x \in {"disparity", "skew", "balance", "normal"} : Occurrences(recs, x) <= 1
           /\ Occurrences(recs, "disparity") = 1 <=> d
           /\ Occurrences(recs, "skew") = 1 <=> s
           /\ Occurrences(recs, "balance") = 1 <=> b
           /\ Precedes(recs, "disparity", "skew")
           /\ Precedes(recs, "disparity", "balance")
           /\ Precedes(recs, "skew", "balance")
           /\ recs = <<"normal">> <=> (~d /\ ~s /\ ~b)
           /\ Occurrences(recs, "normal") = 1 => recs = <<"normal">>

\* C13 witness: all three advisories at once
C13_Witness ==
    /\ metrics # <<>>
    /\ Reported.recommendations = <<"disparity", "skew", "balance">>

----------------------------------------------------------------------------
(* Claims about getTeamRecommendations *)

RuleIds == <<"rec-1", "rec-2", "rec-3", "rec-4", "rec-5", "rec-6">>
RuleNumber(id) == CHOOSE n \in 1..6 : RuleIds[n] = id
PriorityRank(priority) ==
    CASE priority = "high" -> 0 [] priority = "medium" -> 1 [] priority = "low" -> 2

\* C14: in the list getTeamRecommendations returns every rule id occurs at
\* most once, high entries precede medium ones which precede low ones, and
\* within one priority the entries keep the order of the rule checks.
C14_SortedByPriorityStably ==
    recResult # <<>> =>
        LET recs == recResult[1]
        IN /\ \A k \in 1..Len(recs) : \E n \in 1..6 : RuleIds[n] = recs[k].name
           /\ \A i, j \in 1..Len(recs) : recs[i].name = recs[j].name => i = j
           /\ \A i, j \in 1..Len(recs) :
                 i < j => PriorityRank(recs[i].priority) <= PriorityRank(recs[j].priority)
           /\ \A i, j \in 1..Len(recs) :
                 (i < j /\ recs[i].priority = recs[j].priority)
                     => RuleNumber(recs[i].name) < RuleNumber(recs[j].name)

\* C14 witness: five rules fire, of all three priorities
C14_Witness ==
    /\ recResult # <<>>
    /\ ObjectKeys(recResult[1]) = <<"rec-1", "rec-3", "rec-2", "rec-4", "rec-6">>

Emitted(id) ==
    \E k \in 1..Len(analysis[1].recommendations) : analysis[1].recommendations[k].name = id
LearningStyles == Composition.learningStyleDistribution

\* C15: rec-1 is emitted iff the dominant learning style is Visual and the
\* auditory, reading and kinesthetic averages together are below 40.
C15_Rec1IffOthersBelowForty ==
    Analyzed =>
        (Emitted("rec-1") <=>
            (/\ LearningStyles.dominant = "Visual"
             /\ LearningStyles.auditory + LearningStyles.reading
                  + LearningStyles.kinesthetic < 40))

\* C15 as it holds: rec-1 is emitted iff the dominant learning style is
\* Visual and 100 minus the visual average is below 40, whatever the other
\* three averages are.
C15_Rec1IffVisualAboveSixty ==
    Analyzed =>
        (Emitted("rec-1") <=>
            (LearningStyles.dominant = "Visual" /\ LearningStyles.visual > 60))

\* C15 witness: a roster of several teachers for which rec-1 is emitted
C15_Witness ==
    /\ Analyzed
    /\ Len(roster) >= 2
    /\ Emitted("rec-1")
    /\ LearningStyles.visual > 60

\* teachers of the roster whose type, in upper case, contains the letter
Containing(letter) ==
    Cardinality({k \in 1..Len(roster) :
        /\ roster[k].mbtiType # <<>>
        /\ \E i \in 1..Len(roster[k].mbtiType) :
              roster[k].mbtiType[i] = letter
              \/ (\E n \in 1..26 : LowerLetters[n] = roster[k].mbtiType[i]
                                   /\ UpperLetters[n] = letter)})
AxisRatios == Composition.mbtiDistribution.axisRatios
\* the ratio is x / (x + y) * 100
IsShareOf(ratio, x, y) == ratio.num * (x + y) = x * 100 * ratio.den

\* C17: each axis ratio is the count of its letter over the sum of the counts
\* of that letter and of the opposing one, times 100, for every list of
\* type strings; the two ratios of an axis that occurs sum to 100.
C17_AxisRatiosPerAxis ==
    Analyzed =>
        /\ Containing("E") + Containing("I") > 0 =>
              /\ IsShareOf(AxisRatios.E, Containing("E"), Containing("I"))
              /\ IsShareOf(AxisRatios.I, Containing("I"), Containing("E"))
        /\ Containing("S") + Containing("N") > 0 =>
              /\ IsShareOf(AxisRatios.S, Containing("S"), Containing("N"))
              /\ IsShareOf(AxisRatios.N, Containing("N"), Containing("S"))
        /\ Containing("T") + Containing("F") > 0 =>
              /\ IsShareOf(AxisRatios.T, Containing("T"), Containing("F"))
              /\ IsShareOf(AxisRatios.F, Containing("F"), Containing("T"))
        /\ Containing("J") + Containing("P") > 0 =>
              /\ IsShareOf(AxisRatios.J, Containing("J"), Containing("P"))
              /\ IsShareOf(AxisRatios.P, Containing("P"), Containing("J"))

Score == analysis[1].diversityScore
Components ==
    <<Score.mbtiDiversity, Score.learningStyleDiversity, Score.sajuElementsDiversity,
      Score.subjectDiversity, Score.gradeDiversity>>
SomeComponentNaN == \E k \in 1..5 : Components[k].nan
ComponentSum == SumSeq([k \in 1..5 |-> Components[k].micro])

\* C18: overall is the rounded unweighted mean of the five reported (rounded)
\* component scores.
C18_OverallIsMeanOfReported ==
    Analyzed =>
        IF SomeComponentNaN THEN Score.overall.nan
        ELSE /\ ~Score.overall.nan
             /\ Score.overall.micro = ((ComponentSum \div 5 + 500000) \div 1000000) * 1000000

\* the five component scores before Math.round, from the reported composition
UnroundedComponents ==
    LET ls == Composition.learningStyleDistribution
        sj == Composition.sajuElementsDistribution
        subjectCounts == ObjectValues(Composition.expertiseCoverage.subjects)
        gradeCounts == ObjectValues(Composition.expertiseCoverage.grades)
    IN <<calculateShannonDiversity(ObjectValues(Composition.mbtiDistribution.typeCounts),
                                   Composition.teacherCount),
         calculateShannonDiversity(<<ls.visual, ls.auditory, ls.reading, ls.kinesthetic>>,
                                   Composition.teacherCount * 100),
         calculateShannonDiversity(<<sj.wood, sj.fire, sj.earth, sj.metal, sj.water>>, 100),
         IF SumSeq(subjectCounts) > 0
         THEN calculateShannonDiversity(subjectCounts, SumSeq(subjectCounts)) ELSE Whole(0),
         IF SumSeq(gradeCounts) > 0
         THEN calculateShannonDiversity(gradeCounts, SumSeq(gradeCounts)) ELSE Whole(0)>>
UnroundedSum == SumSeq([k \in 1..5 |-> UnroundedComponents[k].micro])
RoundMicro(x) == ((x + 500000) \div 1000000) * 1000000

\* C18 as it holds: overall is Math.round of the unweighted mean of the five
\* component scores before they are rounded (NaN when one of them is NaN);
\* it is within 1 of the rounded mean of the five reported scores.
C18_OverallIsMeanOfUnrounded ==
    Analyzed =>
        IF \E k \in 1..5 : UnroundedComponents[k].nan THEN Score.overall.nan
        ELSE /\ ~Score.overall.nan
             /\ \A k \in 1..5 : Components[k].micro = RoundMicro(UnroundedComponents[k].micro)
             /\ Score.overall.micro = RoundMicro(UnroundedSum \div 5)
             /\ Score.overall.micro - RoundMicro(ComponentSum \div 5) \in {-1000000, 0, 1000000}

\* C18 witness: every component is a number and overall differs from the
\* rounded mean of the reported scores, with several exact types on the roster
C18_Witness ==
    /\ Analyzed
    /\ ~SomeComponentNaN
    /\ Len(Composition.mbtiDistribution.typeCounts) >= 2
    /\ Score.overall.micro # RoundMicro(ComponentSum \div 5)

----------------------------------------------------------------------------
(* Claims about the assignment proposals *)

ApplyCalls == {c \in Calls : calls[c].op = "apply"}
Succeeded == {c \in ApplyCalls : calls[c].result = "success"}
Updating == {c \in ApplyCalls : calls[c].updates > 0}

\* C16: whatever the interleaving of the applyAssignmentProposal calls on
\* one proposal, at most one call performs student updates and returns
\* success; every other call fails with the already-processed error and
\* updates no student.
C16_AppliedByOneCall ==
    proposalExists =>
        /\ Cardinality(Succeeded) <= 1
        /\ Cardinality(Updating) <= 1
        /\ \A c \in ApplyCalls :
              (calls[c].pc = "done" /\ Succeeded \ {c} # {})
                  => (calls[c].result = "alreadyProcessed" /\ calls[c].updates = 0)

\* C20: the status changes only while it is "pending"; an approved or
\* rejected proposal keeps its status under every later call.
C20_StatusFinalOncePending ==
    [][(proposalStatus \in {"approved", "rejected"}) => (proposalStatus' = proposalStatus)]_vars

----------------------------------------------------------------------------
(* Claims about the subject coverage *)

Coverage == Composition.expertiseCoverage

\* C21: for every non-empty roster each fixed subject has count 0, so
\* weakSubjects holds all five subjects, subjectDiversity is 0 and rec-3 is
\* emitted, whatever the teachers' data.
C21_SubjectsNeverCounted ==
    (Analyzed /\ Len(roster) >= 1) =>
        /\ ObjectKeys(Coverage.subjects) = SUBJECTS
        /\ \A k \in 1..Len(Coverage.subjects) : Coverage.subjects[k].value = 0
        /\ Len(SUBJECTS) = 5
        /\ Coverage.weakSubjects = SUBJECTS
        /\ Score.subjectDiversity = Whole(0)
        /\ Emitted("rec-3")

\* C21 witness: a roster of four different teachers, with grades tallied,
\* for which all five subjects are weak and rec-3 is emitted
C21_Witness ==
    /\ Analyzed
    /\ Len(roster) = 4
    /\ \A i, j \in 1..4 : i # j => roster[i] # roster[j]
    /\ \E k \in 1..Len(Coverage.grades) : Coverage.grades[k].value > 0
    /\ Len(Coverage.weakSubjects) = 5
    /\ Emitted("rec-3")

----------------------------------------------------------------------------
(* Claims about the teachers calculateDistributionBalance counts *)

RECURSIVE SquaredCounts(_)
SquaredCounts(ts) ==
    IF ts = {} THEN 0
    ELSE LET t == CHOOSE t \in ts : TRUE
         IN AssignmentsOf(t) * AssignmentsOf(t) + SquaredCounts(ts \ {t})

\* 1 - stdDev / mean over the teachers that appear in the list, clamped to
\* [0,1], in millionths: with k such teachers, n assignments and q the sum of
\* their squared counts, stdDev / mean = sqrt(k q - n^2) / n
BalanceOverAppearing ==
    LET k == Cardinality(TeachersAssigned)
        n == Len(fairAssignments)
        q == SquaredCounts(TeachersAssigned)
    IN IF n = 0 THEN 1000000
       ELSE Min2(1000000, Max2(0, 1000000 - (ISqrt((k * q - n * n) * 1000000) * 1000) \div n))

\* C22: the balance is computed over the teachers that occur in at least one
\* assignment only; when all assignments go to a single teacher the balance
\* is 1 and the balance advisory is not emitted.
C22_OnlyAppearingTeachersCount ==
    metrics # <<>> =>
        /\ ~Reported.distributionBalance.nan
        /\ Reported.distributionBalance.micro = BalanceOverAppearing
        /\ Cardinality(TeachersAssigned) = 1 =>
              /\ Reported.distributionBalance.micro = 1000000
              /\ Occurrences(Reported.recommendations, "balance") = 0

\* C22 witness: ten or more assignments, all to one teacher
C22_Witness ==
    /\ metrics # <<>>
    /\ Len(fairAssignments) >= 10
    /\ Cardinality(TeachersAssigned) = 1
    /\ Reported.distributionBalance.micro = 1000000
    /\ Occurrences(Reported.recommendations, "balance") = 0

====
